---- MODULE Spec2Model ----
(***************************************************************************)
(* Model of update_route53_ip.py: resolve the host's public IP address     *)
(* from an ordered list of IP-echo services (get_public_ip), then submit   *)
(* one UPSERT change for a DNS record (update_route53_record), and turn    *)
(* the outcome into the process exit code (main).                          *)
(*                                                                         *)
(* Strings whose content matters (response bodies, record names, resolved  *)
(* addresses) are sequences of one-character strings.  An optional value   *)
(* is a sequence of length at most one: None is <<>>, Some(v) is <<v>>.    *)
(***************************************************************************)
EXTENDS Integers, Sequences, FiniteSets, TLC

\* ------------------------------------------------------------------ bounds
MaxBodyLen == 2
MaxNameLen == 2
MaxRuns == 2

\* ------------------------------------------------------- optional values
None == <<>>
Some(v) == <<v>>

\* ------------------------------------------------------------ input sets
RECURSIVE SeqsUpTo(_, _)
SeqsUpTo(S, n) ==
    IF n = 0 THEN {<<>>}
    ELSE LET shorter == SeqsUpTo(S, n - 1)
         IN  shorter \cup {Append(s, c) : s \in shorter, c \in S}

BodyChars == {"1", " "}
Bodies == SeqsUpTo(BodyChars, MaxBodyLen)

NameChars == {"a", "."}
RecordNames == SeqsUpTo(NameChars, MaxNameLen)

\* The command lines main can be started with: every record name, either
\* with the defaults (TTL 300, no profile) or with every option given.
CommandLines ==
    { [zone_id |-> "Z123", record_name |-> n, ttl |-> 300,
       record_type |-> "A", profile |-> None] : n \in RecordNames }
    \cup
    { [zone_id |-> "Z456", record_name |-> n, ttl |-> 60,
       record_type |-> "A", profile |-> Some("dev")] : n \in RecordNames }

\* What requests.get can do for one candidate: raise a RequestException,
\* or return a response with a status code and a text.
RaisedRequestException == [kind |-> "raise", status_code |-> 0, text |-> <<>>]
OkResponses == {[kind |-> "response", status_code |-> 200, text |-> b] : b \in Bodies}
NonOkResponses == {[kind |-> "response", status_code |-> 503, text |-> <<"1">>]}

\* An address the record may hold from before the tool's first run.
StaleValue == <<"9">>

\* ------------------------------------------------------ get_public_ip data
ip_services ==
    << "https://api.ipify.org", "https://ifconfig.me/ip",
       "https://icanhazip.com", "https://ipinfo.io/ip" >>

error_msg == "Failed to retrieve public IP address from all services"

\* ---------------------------------------------------------- str.strip()
Whitespace == {" ", "\t", "\n", "\r"}

RECURSIVE LStrip(_)
LStrip(s) == IF s # <<>> /\ Head(s) \in Whitespace THEN LStrip(Tail(s)) ELSE s

RECURSIVE RStrip(_)
RStrip(s) ==
    IF s # <<>> /\ s[Len(s)] \in Whitespace
    THEN RStrip(SubSeq(s, 1, Len(s) - 1))
    ELSE s

StripLeftOnly(s) == LStrip(s)

Strip(s) == RStrip(LStrip(s))

\* ------------------------------------------- update_route53_record helpers
EndsWithDot(name) == name # <<>> /\ name[Len(name)] = "."

NormalizeNameAlwaysAppend(record_name) == Append(record_name, ".")

NormalizeName(record_name) ==
    IF ~EndsWithDot(record_name) THEN Append(record_name, ".") ELSE record_name

CreateAction == "CREATE"

UpsertAction == "UPSERT"

ChangeBatchDefaultTtl(record_name, record_type, ttl, ip) ==
    [Action |-> UpsertAction,
     ResourceRecordSet |->
        [Name |-> record_name, Type |-> record_type, TTL |-> 300, Value |-> ip]]

ChangeBatch(record_name, record_type, ttl, ip) ==
    [Action |-> UpsertAction,
     ResourceRecordSet |->
        [Name |-> record_name, Type |-> record_type, TTL |-> ttl, Value |-> ip]]

ChangeRequest(hosted_zone_id, change_batch) ==
    [HostedZoneId |-> hosted_zone_id, ChangeBatch |-> change_batch]

\* ----------------------------------------------------- the DNS provider
\* The provider accepts an UPSERT whatever the zone holds; a CREATE only
\* when the record set is absent; a DELETE only when it is present.
ProviderCanApply(rec, change_batch) ==
    CASE change_batch.Action = "UPSERT" -> TRUE
      [] change_batch.Action = "CREATE" -> rec = None
      [] change_batch.Action = "DELETE" -> rec # None
      [] OTHER -> FALSE

ProviderApply(rec, change_batch) ==
    IF change_batch.Action = "DELETE" THEN None
    ELSE Some(change_batch.ResourceRecordSet)

\* What the hosted zone may hold for the name before the tool first runs:
\* nothing, or a record set with an older address.
InitialRecords(cmd) ==
    { None,
      Some([Name |-> NormalizeName(cmd.record_name), Type |-> "A",
            TTL |-> 300, Value |-> StaleValue]) }

ChangeInfo == [Id |-> "/change/C1", Status |-> "PENDING"]

\* ----------------------------------------------------------------- state
VARIABLES
    argv,        \* the command line of the invocation
    args,        \* the parsed arguments, None before parsing
    pc,          \* the position of the process
    idx,         \* index of the next candidate in ip_services
    contacted,   \* the requests issued so far, each with what came back
    log,         \* the records written to the logger
    ip_address,  \* the value get_public_ip returned, None before
    exc,         \* the exception in flight towards main, None if none
    request,     \* the change request handed to the provider client
    calls,       \* number of change_resource_record_sets calls
    response,    \* what change_resource_record_sets returned or raised
    record,      \* the record set the hosted zone holds for the name
    success,     \* the return value of update_route53_record
    exitCode,    \* the value main returned to sys.exit
    runs         \* invocations started

vars == << argv, args, pc, idx, contacted, log, ip_address, exc, request,
           calls, response, record, success, exitCode, runs >>

LogRecord(level, text, arg) == [level |-> level, text |-> text, arg |-> arg]

Contact(service, resp) ==
    [service |-> service, kind |-> resp.kind,
     status_code |-> resp.status_code, text |-> resp.text]

Init ==
    /\ argv \in CommandLines
    /\ args = None
    /\ pc = "start"
    /\ idx = 1
    /\ contacted = <<>>
    /\ log = <<>>
    /\ ip_address = None
    /\ exc = None
    /\ request = None
    /\ calls = 0
    /\ response = None
    /\ record \in InitialRecords(argv)
    /\ success = None
    /\ exitCode = None
    /\ runs = 1

\* ------------------------------------------------------------------ main
ParseArgs ==
    /\ pc = "start"
    /\ args' = Some(argv)
    /\ pc' = "resolve"
    /\ UNCHANGED << argv, idx, contacted, log, ip_address, exc, request,
                    calls, response, record, success, exitCode, runs >>

\* --------------------------------------------------------- get_public_ip
GetOk200 ==
    /\ pc = "resolve"
    /\ idx <= Len(ip_services)
    /\ \E resp \in OkResponses :
         /\ contacted' = Append(contacted, Contact(ip_services[idx], resp))
         /\ ip_address' = Some(Strip(resp.text))
         /\ log' = Append(log, LogRecord("INFO", "Successfully retrieved public IP",
                                         Strip(resp.text)))
    /\ pc' = "update_session"
    /\ UNCHANGED << argv, args, idx, exc, request, calls, response, record,
                    success, exitCode, runs >>

GetNon200 ==
    /\ pc = "resolve"
    /\ idx <= Len(ip_services)
    /\ \E resp \in NonOkResponses :
         contacted' = Append(contacted, Contact(ip_services[idx], resp))
    /\ idx' = idx + 1
    /\ UNCHANGED << argv, args, pc, log, ip_address, exc, request, calls,
                    response, record, success, exitCode, runs >>

\* Mutants of GetRaises: the RequestException is not caught; the failure
\* is not logged.
GetRaisesUncaught ==
    /\ pc = "resolve"
    /\ idx <= Len(ip_services)
    /\ contacted' = Append(contacted, Contact(ip_services[idx], RaisedRequestException))
    /\ exc' = Some([type |-> "RequestException", args |-> <<ip_services[idx]>>])
    /\ pc' = "main_except"
    /\ UNCHANGED << argv, args, idx, log, ip_address, request, calls,
                    response, record, success, exitCode, runs >>

GetRaisesSilent ==
    /\ pc = "resolve"
    /\ idx <= Len(ip_services)
    /\ contacted' = Append(contacted, Contact(ip_services[idx], RaisedRequestException))
    /\ idx' = idx + 1
    /\ UNCHANGED << argv, args, pc, log, ip_address, exc, request, calls,
                    response, record, success, exitCode, runs >>

GetRaises ==
    /\ pc = "resolve"
    /\ idx <= Len(ip_services)
    /\ contacted' = Append(contacted, Contact(ip_services[idx], RaisedRequestException))
    /\ log' = Append(log, LogRecord("WARNING", "Failed to get IP from",
                                    <<ip_services[idx]>>))
    /\ idx' = idx + 1
    /\ UNCHANGED << argv, args, pc, ip_address, exc, request, calls,
                    response, record, success, exitCode, runs >>

RaiseAllFailed ==
    /\ pc = "resolve"
    /\ idx > Len(ip_services)
    /\ log' = Append(log, LogRecord("ERROR", error_msg, <<>>))
    /\ exc' = Some([type |-> "Exception", args |-> <<error_msg>>])
    /\ pc' = "main_except"
    /\ UNCHANGED << argv, args, idx, contacted, ip_address, request, calls,
                    response, record, success, exitCode, runs >>

\* ------------------------------------------------- update_route53_record
CreateSessionOk ==
    /\ pc = "update_session"
    /\ pc' = "update_submit"
    /\ UNCHANGED << argv, args, idx, contacted, log, ip_address, exc, request,
                    calls, response, record, success, exitCode, runs >>

CreateSessionFails ==
    /\ pc = "update_session"
    /\ log' = Append(log, LogRecord("ERROR", "Unexpected error", <<"session">>))
    /\ success' = Some(FALSE)
    /\ pc' = "main_check"
    /\ UNCHANGED << argv, args, idx, contacted, ip_address, exc, request,
                    calls, response, record, exitCode, runs >>

SubmitChange ==
    /\ pc = "update_submit"
    /\ LET record_name == NormalizeName(args[1].record_name)
           change_batch == ChangeBatch(record_name, args[1].record_type,
                                       args[1].ttl, ip_address[1])
       IN  request' = Some(ChangeRequest(args[1].zone_id, change_batch))
    /\ calls' = calls + 1
    /\ pc' = "provider"
    /\ UNCHANGED << argv, args, idx, contacted, log, ip_address, exc,
                    response, record, success, exitCode, runs >>

ProviderAccepts ==
    /\ pc = "provider"
    /\ ProviderCanApply(record, request[1].ChangeBatch)
    /\ record' = ProviderApply(record, request[1].ChangeBatch)
    /\ response' = Some([kind |-> "ok", ChangeInfo |-> ChangeInfo])
    /\ log' = log \o
         << LogRecord("INFO", "Successfully submitted change",
                      <<ChangeInfo.Id, ChangeInfo.Status>>),
            LogRecord("INFO", "Updated",
                      <<request[1].ChangeBatch.ResourceRecordSet.Name, ip_address[1]>>) >>
    /\ success' = Some(TRUE)
    /\ pc' = "main_check"
    /\ UNCHANGED << argv, args, idx, contacted, ip_address, exc, request,
                    calls, exitCode, runs >>

\* Mutant of ProviderRejects: the rejected request is submitted again.
ProviderRejectsRetried ==
    /\ pc = "provider"
    /\ response' = Some([kind |-> "ClientError", ChangeInfo |-> ChangeInfo])
    /\ log' = Append(log, LogRecord("ERROR", "AWS API error", <<"ClientError">>))
    /\ pc' = "update_submit"
    /\ UNCHANGED << argv, args, idx, contacted, ip_address, exc, request,
                    calls, record, success, exitCode, runs >>

ProviderRejects ==
    /\ pc = "provider"
    /\ response' = Some([kind |-> "ClientError", ChangeInfo |-> ChangeInfo])
    /\ log' = Append(log, LogRecord("ERROR", "AWS API error", <<"ClientError">>))
    /\ success' = Some(FALSE)
    /\ pc' = "main_check"
    /\ UNCHANGED << argv, args, idx, contacted, ip_address, exc, request,
                    calls, record, exitCode, runs >>

\* Mutant of ProviderCallFails: the exception leaves update_route53_record.
ProviderCallFailsUncaught ==
    /\ pc = "provider"
    /\ response' = Some([kind |-> "Exception", ChangeInfo |-> ChangeInfo])
    /\ exc' = Some([type |-> "Exception", args |-> <<"Exception">>])
    /\ pc' = "main_except"
    /\ UNCHANGED << argv, args, idx, contacted, log, ip_address, request,
                    calls, record, success, exitCode, runs >>

ProviderCallFails ==
    /\ pc = "provider"
    /\ response' = Some([kind |-> "Exception", ChangeInfo |-> ChangeInfo])
    /\ log' = Append(log, LogRecord("ERROR", "Unexpected error", <<"Exception">>))
    /\ success' = Some(FALSE)
    /\ pc' = "main_check"
    /\ UNCHANGED << argv, args, idx, contacted, ip_address, exc, request,
                    calls, record, exitCode, runs >>

\* ------------------------------------------------------------ main, end
\* Mutant of MainReturn: the result of the update is ignored.
MainReturnAlwaysZero ==
    /\ pc = "main_check"
    /\ log' = Append(log, LogRecord("INFO",
                 "Route 53 record update completed successfully", <<>>))
    /\ exitCode' = Some(0)
    /\ pc' = "exit"
    /\ UNCHANGED << argv, args, idx, contacted, ip_address, exc, request,
                    calls, response, record, success, runs >>

MainReturn ==
    /\ pc = "main_check"
    /\ IF success = Some(TRUE)
       THEN /\ log' = Append(log, LogRecord("INFO",
                         "Route 53 record update completed successfully", <<>>))
            /\ exitCode' = Some(0)
       ELSE /\ log' = Append(log, LogRecord("ERROR",
                         "Failed to update Route 53 record", <<>>))
            /\ exitCode' = Some(1)
    /\ pc' = "exit"
    /\ UNCHANGED << argv, args, idx, contacted, ip_address, exc, request,
                    calls, response, record, success, runs >>

\* Mutant of MainExcept: main has no handler and the exception leaves it.
MainExceptMissing ==
    /\ pc = "main_except"
    /\ exc # None
    /\ pc' = "escaped"
    /\ UNCHANGED << argv, args, idx, contacted, log, ip_address, exc, request,
                    calls, response, record, success, exitCode, runs >>

MainExcept ==
    /\ pc = "main_except"
    /\ exc # None
    /\ log' = Append(log, LogRecord("ERROR", "Error", exc[1].args))
    /\ exc' = None
    /\ exitCode' = Some(1)
    /\ pc' = "exit"
    /\ UNCHANGED << argv, args, idx, contacted, ip_address, request, calls,
                    response, record, success, runs >>

\* The scheduler starts the tool again with the same command line; only
\* the hosted zone's content carries over.
NextRun ==
    /\ pc = "exit"
    /\ runs < MaxRuns
    /\ runs' = runs + 1
    /\ args' = None
    /\ pc' = "start"
    /\ idx' = 1
    /\ contacted' = <<>>
    /\ log' = <<>>
    /\ ip_address' = None
    /\ exc' = None
    /\ request' = None
    /\ calls' = 0
    /\ response' = None
    /\ success' = None
    /\ exitCode' = None
    /\ UNCHANGED << argv, record >>

Next ==
    \/ ParseArgs
    \/ GetOk200
    \/ GetNon200
    \/ GetRaises
    \/ RaiseAllFailed
    \/ CreateSessionOk
    \/ CreateSessionFails
    \/ SubmitChange
    \/ ProviderAccepts
    \/ ProviderRejects
    \/ ProviderCallFails
    \/ MainReturn
    \/ MainExcept
    \/ NextRun

Spec == Init /\ [][Next]_vars

\* Every call returns or raises and the single thread keeps running.
FairSpec == Spec /\ WF_vars(Next)

TypeOK ==
    /\ pc \in {"start", "resolve", "main_except", "update_session",
               "update_submit", "provider", "main_check", "exit"}
    /\ idx \in 1..(Len(ip_services) + 1)
    /\ calls \in Nat
    /\ runs \in 1..MaxRuns

\* ======================================================== the properties
Failed(c) == c.kind = "raise" \/ c.status_code # 200

InListOrder ==
    /\ Len(contacted) <= Len(ip_services)
    /\ \A i \in 1..Len(contacted) : contacted[i].service = ip_services[i]

AllCandidatesFailed ==
    /\ Len(contacted) = Len(ip_services)
    /\ \A i \in 1..Len(contacted) : Failed(contacted[i])

\* t is b without its leading and trailing whitespace.
IsTrimOf(t, b) ==
    \E i \in 0..Len(b) : \E j \in i..Len(b) :
        /\ t = SubSeq(b, i + 1, j)
        /\ \A k \in 1..i : b[k] \in {" ", "\t", "\n", "\r"}
        /\ \A k \in (j + 1)..Len(b) : b[k] \in {" ", "\t", "\n", "\r"}
        /\ t # <<>> => /\ t[1] \notin {" ", "\t", "\n", "\r"}
                       /\ t[Len(t)] \notin {" ", "\t", "\n", "\r"}

Logged(text, arg) == \E i \in 1..Len(log) : log[i].text = text /\ log[i].arg = arg

CountLogged(text) == Cardinality({i \in 1..Len(log) : log[i].text = text})

\* C1: once get_public_ip has returned, the value is the whitespace-trimmed
\* body of the first candidate, in list order, that answered with status
\* 200; every candidate before it failed, and no candidate after it was
\* contacted.
C1_FirstSuccessWins ==
    ip_address # None =>
        LET k == Len(contacted)
        IN  /\ k >= 1
            /\ InListOrder
            /\ contacted[k].kind = "response"
            /\ contacted[k].status_code = 200
            /\ IsTrimOf(ip_address[1], contacted[k].text)
            /\ \A i \in 1..(k - 1) : Failed(contacted[i])

C1_Witness ==
    /\ pc = "exit"
    /\ ip_address # None
    /\ Len(contacted) = 3
    /\ contacted[3].text # ip_address[1]
    /\ contacted[1].kind = "raise"
    /\ contacted[2].status_code = 503

\* C2 (as stated): when every candidate fails, get_public_ip raises an
\* error that carries the list of attempted services, after trying them all.
C2_ErrorCarriesServices ==
    exc # None =>
        /\ AllCandidatesFailed
        /\ \A i \in 1..Len(contacted) :
              \E j \in 1..Len(exc[1].args) : exc[1].args[j] = contacted[i].service

\* C2 (amended): when every candidate fails, get_public_ip raises, after
\* trying all four candidates in list order, a plain Exception whose only
\* argument is the fixed message; no address is produced and the run ends
\* with exit code 1.
C2_AllFailRaisesFixedMessage ==
    /\ exc # None =>
          /\ AllCandidatesFailed
          /\ InListOrder
          /\ exc[1] = [type |-> "Exception", args |-> <<error_msg>>]
    /\ AllCandidatesFailed =>
          /\ ip_address = None
          /\ pc \in {"resolve", "main_except", "exit"}
          /\ pc = "main_except" => exc # None
          /\ pc = "exit" => exitCode = Some(1)

C2_Witness ==
    /\ pc = "main_except"
    /\ exc # None
    /\ AllCandidatesFailed
    /\ \E i \in 1..4 : contacted[i].kind = "raise"
    /\ \E i \in 1..4 : contacted[i].kind = "response"

\* C3: when main has returned, the exit code is 0 exactly when the provider
\* accepted the change request, and 1 otherwise.
C3_ExitZeroIffAccepted ==
    pc = "exit" =>
        /\ exitCode \in {Some(0), Some(1)}
        /\ exitCode = Some(0) <=> (response # None /\ response[1].kind = "ok")

C3_Witness ==
    /\ pc = "exit"
    /\ exitCode = Some(0)
    /\ response # None
    /\ response[1].kind = "ok"

\* C4 (as stated): in every run the provider's change operation has been
\* called exactly once when the run ends.
C4_ExactlyOneCall == pc = "exit" => calls = 1

\* C4 (amended): the provider's change operation is called at most once
\* per run: exactly once when an address was resolved and the provider
\* client was created, and not at all when resolution failed or creating
\* the session or client failed.
C4_AtMostOneCall ==
    /\ calls <= 1
    /\ pc = "exit" =>
          calls = (IF ip_address # None /\ ~Logged("Unexpected error", <<"session">>)
                   THEN 1 ELSE 0)

C4_Witness ==
    /\ pc = "exit"
    /\ calls = 1
    /\ response # None
    /\ response[1].kind = "ClientError"

\* C5: the name in the submitted change request ends with "."; a name
\* given without a trailing "." has exactly one appended, and a name given
\* with a trailing "." is submitted unchanged.
C5_NameNormalized ==
    request # None =>
        LET given == argv.record_name
            sent  == request[1].ChangeBatch.ResourceRecordSet.Name
        IN  /\ Len(sent) >= 1
            /\ sent[Len(sent)] = "."
            /\ IF Len(given) >= 1 /\ given[Len(given)] = "."
               THEN sent = given
               ELSE sent = given \o <<".">>

C5_Witness ==
    /\ request # None
    /\ argv.record_name = <<"a", ".">>
    /\ request[1].ChangeBatch.ResourceRecordSet.Name = <<"a", ".">>

\* C6 (as stated): a provider rejection makes update_route53_record fail
\* with a ProviderError, any other exception with an UnexpectedError.
C6_RaisesDistinctErrors ==
    (response # None /\ response[1].kind # "ok") =>
        /\ exc # None
        /\ exc[1].type = (IF response[1].kind = "ClientError"
                          THEN "ProviderError" ELSE "UnexpectedError")

\* C6 (amended): update_route53_record reports a provider rejection and any
\* other exception the same way, by returning False with no exception
\* raised; the two differ only in the logged message ("AWS API error" for
\* a rejection, "Unexpected error" for anything else); the request is not
\* retried after either failure.
C6_FailuresReturnFalse ==
    (response # None /\ response[1].kind # "ok") =>
        /\ success = Some(FALSE)
        /\ exc = None
        /\ calls = 1
        /\ pc \in {"main_check", "exit"}
        /\ IF response[1].kind = "ClientError"
           THEN CountLogged("AWS API error") = 1 /\ CountLogged("Unexpected error") = 0
           ELSE CountLogged("AWS API error") = 0 /\ CountLogged("Unexpected error") = 1

C6_Witness ==
    /\ pc = "exit"
    /\ response # None
    /\ response[1].kind = "Exception"
    /\ success = Some(FALSE)
    /\ exitCode = Some(1)

\* C7: the provider can accept the submitted change whether or not the
\* record exists, and whatever value it holds; when it accepts, the record
\* becomes the submitted record set, whose value is the resolved address;
\* accepting the same record set again leaves the record as it is.
C7_UpsertConverges ==
    [][ /\ pc = "provider" => ProviderCanApply(record, request[1].ChangeBatch)
        /\ (pc = "provider" /\ success' = Some(TRUE)) =>
              /\ record' = Some(request[1].ChangeBatch.ResourceRecordSet)
              /\ record'[1].Value = ip_address[1]
              /\ (record = Some(request[1].ChangeBatch.ResourceRecordSet)
                    => record' = record) ]_vars

C7_Witness ==
    /\ runs = 2
    /\ pc = "exit"
    /\ exitCode = Some(0)
    /\ record # None
    /\ record[1].Value = ip_address[1]
    /\ record[1].Value # StaleValue

\* C8 (as stated): every candidate that failed, by network error or by a
\* non-200 status, has a log record of its failure.
C8_EveryFailureLogged ==
    \A i \in 1..Len(contacted) :
        Failed(contacted[i]) => Logged("Failed to get IP from", <<contacted[i].service>>)

\* C8 (amended): every candidate that failed by network error has its
\* failure logged before the next candidate is tried; a candidate that
\* answered with a non-200 status is skipped without a log record; each
\* candidate is contacted at most once, in list order.
C8_NetworkFailuresLogged ==
    /\ InListOrder
    /\ \A i \in 1..Len(contacted) :
          Logged("Failed to get IP from", <<contacted[i].service>>)
              <=> contacted[i].kind = "raise"
    /\ CountLogged("Failed to get IP from")
          = Cardinality({i \in 1..Len(contacted) : contacted[i].kind = "raise"})

C8_Witness ==
    /\ pc = "resolve"
    /\ Len(contacted) = 3
    /\ contacted[1].kind = "raise"
    /\ contacted[2].kind = "response"
    /\ contacted[3].kind = "raise"
    /\ CountLogged("Failed to get IP from") = 2

\* C9: a change is submitted only after get_public_ip returned an address,
\* and it carries that address (the trimmed body, unvalidated) with the
\* zone id, TTL and record type of the command line; when resolution fails
\* nothing is submitted and the run ends with exit code 1.
C9_SubmitsResolvedAddress ==
    /\ (calls > 0 \/ request # None) =>
          /\ ip_address # None
          /\ request # None
          /\ request[1].HostedZoneId = argv.zone_id
          /\ request[1].ChangeBatch.ResourceRecordSet.Type = argv.record_type
          /\ request[1].ChangeBatch.ResourceRecordSet.TTL = argv.ttl
          /\ request[1].ChangeBatch.ResourceRecordSet.Value = ip_address[1]
          /\ IsTrimOf(request[1].ChangeBatch.ResourceRecordSet.Value,
                      contacted[Len(contacted)].text)
    /\ (ip_address = None /\ pc \in {"main_except", "exit"}) =>
          /\ calls = 0
          /\ request = None
          /\ pc = "exit" => exitCode = Some(1)

C9_Witness ==
    /\ pc = "provider"
    /\ request # None
    /\ argv.ttl = 60
    /\ argv.zone_id = "Z456"
    /\ request[1].ChangeBatch.ResourceRecordSet.Value = <<>>
    /\ contacted[Len(contacted)].text # <<>>

\* C10: every invocation ends with exit code 0 or 1, having contacted at
\* most the four candidates; no exception is left in flight.
C10_Terminates ==
    /\ [](Len(contacted) <= 4)
    /\ (pc = "start") ~> (pc = "exit" /\ exitCode \in {Some(0), Some(1)} /\ exc = None)

C10_Witness ==
    /\ pc = "exit"
    /\ runs = MaxRuns
    /\ Len(contacted) = 4
    /\ exitCode = Some(1)
    /\ exc = None
====
